---- MODULE Spec2Model ----
(***************************************************************************)
(* Request lifecycle and completion polling of raft::std_comms             *)
(* (cpp/include/raft/comms/std/std_comms.hpp): get_request_id, isend,      *)
(* irecv and waitall over _next_request_id, _requests_in_flight and        *)
(* _free_requests, with the UCX transport and the wall clock as the        *)
(* environment.                                                            *)
(*                                                                         *)
(* One thread calls the communicator (the class has no locking), so isend, *)
(* irecv and the entry of waitall happen only while no call is running     *)
(* (pc = "idle").  isend and irecv are straight-line code and are one      *)
(* action each.  waitall is split at its loop heads, because the transport *)
(* completes requests and the clock advances while it polls.               *)
(***************************************************************************)
EXTENDS Integers, Sequences, FiniteSets

\* ------------------------------------------------------------- bounds
\* Number of isend/irecv calls that reach malloc (native handles ever created).
MaxOps == 2
\* Largest count passed to waitall.
MaxCount == 2
\* Request identifiers a caller may name in waitall: 0 .. MaxId.
MaxId == 2
\* Progress calls that report motion between two observed completions.
MaxMotion == 1

\* Calls of get_request_id made by the user rather than by isend / irecv.
MaxDirect == 1

\* Largest number of stream queries that report cudaErrorNotReady in one
\* syncStream call.
MaxPending == 2

\* Largest cluster size (_size).
MaxSize == 2
\* Largest entry of allgatherv's recvcounts and displs.
MaxElems == 3

\* The stall threshold of waitall, in seconds (now - start < 10).
Timeout == 10

VARIABLES
  p2p_enabled,         \* bool p2p_enabled
  ucp_worker,          \* _ucp_worker != nullptr
  next_request_id,     \* _next_request_id
  requests_in_flight,  \* _requests_in_flight: request id -> native handle
  free_requests,       \* _free_requests
  heap,                \* the malloc'ed ucp_request records, by handle 1..Len(heap)
  pc,                  \* position of the calling thread
  array_of_requests,   \* waitall's argument (count = its length)
  i,                   \* waitall's first loop index (1-based)
  requests,            \* waitall's local vector of handles
  it,                  \* waitall's iterator into requests (1-based)
  restart,             \* waitall's local flag
  since_start,         \* time(NULL) - start, saturated at Timeout
  motion,              \* progress calls that reported motion since the last completion
  taken,               \* handles the current/last waitall moved into requests
  last,                \* the last finished call: [op, res]
  size,                \* _size
  stream_n,            \* queries for which the stream in use still reports not ready
  stream_ops,          \* what the running collective call has issued, in order
  cudaErr,             \* syncStream's local cudaErr
  ncclErr,             \* syncStream's local ncclErr
  ncclAsyncErr,        \* syncStream's local ncclAsyncErr
  polls,               \* cudaStreamQuery calls made by the running syncStream
  aborts,              \* ncclCommAbort calls made by the running syncStream
  faults,              \* asynchronous faults reported to the running syncStream
  status,              \* what syncStream returned ("none" while it runs)
  caller,              \* the public call that is running syncStream
  args,                \* allgatherv's arguments
  root,                \* allgatherv's loop variable
  most_in_flight,      \* the largest size _requests_in_flight has had so far
  direct               \* calls of get_request_id made by the user, not by isend / irecv

vars == <<p2p_enabled, ucp_worker, next_request_id, requests_in_flight,
          free_requests, heap, pc, array_of_requests, i, requests, it,
          restart, since_start, motion, taken, last, size, stream_n,
          stream_ops, cudaErr, ncclErr, ncclAsyncErr, polls, aborts, faults,
          status, caller, args, root, most_in_flight, direct>>

registry == <<next_request_id, requests_in_flight, free_requests>>
locals == <<array_of_requests, i, requests, it, restart, since_start, motion, taken>>
config == <<p2p_enabled, ucp_worker>>
\* The state of the collective calls: none of it is read or written by isend,
\* irecv and waitall, and none of theirs by the collective calls.
sync_locals == <<cudaErr, ncclErr, ncclAsyncErr, polls, aborts, faults, status>>
coll == <<size, stream_n, stream_ops, sync_locals, caller, args, root>>
\* What has been observed of the table since construction.
history == <<most_in_flight, direct>>
p2p == <<config, registry, heap, locals, history>>

Handles == 1..Len(heap)
Keys == DOMAIN requests_in_flight

\* Faulty variant: the completed request stays in the vector.
Erase_Keep(s, k) == s

\* Remove position k of sequence s (std::vector::erase).
Erase(s, k) == [j \in 1..(Len(s) - 1) |-> IF j < k THEN s[j] ELSE s[j + 1]]

\* ------------------------------------------------------------- helpers
\* Faulty variant: the ASSERT on _ucp_worker left out.
P2PReady_NoWorkerCheck == p2p_enabled

\* The three ASSERTs that open isend, irecv and waitall (UCX_ENABLED is the
\* compile-time constant true).
P2PReady == p2p_enabled /\ ucp_worker

\* Faulty variant: the counter is read but not incremented.
GetRequestId_NoIncrement ==
  IF free_requests = {}
    THEN {[req |-> next_request_id, next |-> next_request_id, free |-> {}]}
    ELSE {[req |-> x, next |-> next_request_id, free |-> free_requests \ {x}] :
            x \in free_requests}

\* Faulty variant: the reused identifier is not erased from the free set.
GetRequestId_KeepFree ==
  IF free_requests = {}
    THEN {[req |-> next_request_id, next |-> next_request_id + 1, free |-> {}]}
    ELSE {[req |-> x, next |-> next_request_id, free |-> free_requests] :
            x \in free_requests}

\* Faulty variant: the free set is ignored and every identifier comes from the counter.
GetRequestId_AlwaysFresh ==
  {[req |-> next_request_id, next |-> next_request_id + 1, free |-> free_requests]}

\* get_request_id: the possible results [req, next, free].  begin() of an
\* unordered_set is whichever element the hash order puts first.
GetRequestId ==
  IF free_requests = {}
    THEN {[req |-> next_request_id, next |-> next_request_id + 1, free |-> {}]}
    ELSE {[req |-> x, next |-> next_request_id, free |-> free_requests \ {x}] :
            x \in free_requests}

\* _requests_in_flight.insert(std::make_pair(id, h)): unordered_map::insert
\* leaves the map as it is when the key is already present.
Insert(t, id, h) ==
  [k \in (DOMAIN t) \cup {id} |-> IF k \in DOMAIN t THEN t[k] ELSE h]

\* Faulty variant: the identifier is not put in the free set.
FreeInsert_Drop(id) == free_requests

\* _free_requests.insert(req_it->first)
FreeInsert(id) == free_requests \cup {id}

\* Faulty variant: the entry is not erased from the table.
TableErase_Keep(id) == requests_in_flight

\* Faulty variant: the whole table is cleared.
TableErase_Clear(id) == <<>>

\* _requests_in_flight.erase(req_it)
TableErase(id) == [k \in Keys \ {id} |-> requests_in_flight[k]]

\* Faulty variant: the needs_release test is not negated.
IsComplete_NotNegated(req) == req.needs_release \/ req.completed = 1

\* !req->needs_release || req->req->completed == 1
IsComplete(req) == (~req.needs_release) \/ req.completed = 1

\* Faulty variant: the timeout ASSERT is left out.
TimedOut_Never == FALSE

\* Faulty variant: the ASSERT fails one second early.
TimedOut_Early == ~(since_start < Timeout - 1)

\* The negation of ASSERT(now - start < 10, ...).
TimedOut == ~(since_start < Timeout)

\* The record ucp_isend / ucp_irecv fill in; id and state record which request
\* identifier the operation was issued under and where its handle is, freed
\* how many times free_ucp_request was called on it.
NewRequest(id, nr, rq, cp) ==
  [id |-> id, needs_release |-> nr, req |-> rq, completed |-> cp,
   state |-> "inflight", freed |-> 0]

\* What ucp_isend / ucp_irecv leave in req->req and req->req->completed: an
\* operation that needs no release step has no native request to look at; one
\* that needs it has a request whose completion flag the transport has not
\* set yet.
Filled(nr) == IF nr THEN {<<"ptr", 0>>} ELSE {<<"null", 0>>}

\* One of the three ASSERTs on a request that needs release fails:
\* UCS_PTR_IS_PTR(req->req), !UCS_PTR_IS_ERR(req->req),
\* completed == 1 || completed == 0.
RequestAssertFails(req) ==
  /\ req.needs_release
  /\ \/ req.req # "ptr"
     \/ req.req = "err"
     \/ ~(req.completed = 1 \/ req.completed = 0)

SetState(h, st) == [heap EXCEPT ![h].state = st]

\* _ucp_handler.free_ucp_request(req)
free_ucp_request(h) == [heap EXCEPT ![h].state = "cleaned", ![h].freed = @ + 1]

\* The handles still in requests when waitall leaves by a failed ASSERT: the
\* vector is destroyed and nothing refers to them any more.
Abandon ==
  [h \in Handles |->
     IF \E k \in 1..Len(requests) : requests[k] = h
       THEN [heap[h] EXCEPT !.state = "abandoned"]
       ELSE heap[h]]

Larger(a, b) == IF a < b THEN b ELSE a

Finished(op, res) == [op |-> op, res |-> res]

\* waitall's locals after the call has ended.
LocalsGone ==
  /\ i' = 1
  /\ requests' = <<>>
  /\ it' = 1
  /\ restart' = FALSE
  /\ since_start' = 0
  /\ motion' = 0

\* ------------------------------------------------------------- Init
\* The two constructors.  The point-to-point one sets _next_request_id(0) and
\* p2p_enabled = true and stores whatever worker it is given; the collective
\* one leaves p2p_enabled false and _ucp_worker, _next_request_id unset.
Constructed ==
  /\ \/ /\ p2p_enabled = TRUE
        /\ ucp_worker \in BOOLEAN
        /\ next_request_id = 0
     \/ /\ p2p_enabled = FALSE
        /\ ucp_worker \in BOOLEAN
        /\ next_request_id \in 0..MaxId
  /\ requests_in_flight = <<>>
  /\ free_requests = {}
  /\ heap = <<>>
  /\ pc = "idle"
  /\ array_of_requests = <<>>
  /\ i = 1
  /\ requests = <<>>
  /\ it = 1
  /\ restart = FALSE
  /\ since_start = 0
  /\ motion = 0
  /\ taken = {}
  /\ last = Finished("none", "ok")
  /\ stream_n = 0
  /\ stream_ops = <<>>
  /\ cudaErr = "unset"
  /\ ncclErr = "unset"
  /\ ncclAsyncErr = "unset"
  /\ polls = 0
  /\ aborts = 0
  /\ faults = 0
  /\ status = "none"
  /\ caller = "none"
  /\ args = <<>>
  /\ root = 0
  /\ most_in_flight = 0
  /\ direct = 0

\* A communicator as the point-to-point calls see it: the cluster size plays
\* no part in them.
Init == Constructed /\ size = 1

\* ------------------------------------------------------------- get_request_id
\* get_request_id is public and has no ASSERT: a call of it by the user takes
\* an identifier that no table entry is made for.  On a communicator of the
\* collective-only constructor it reads the counter that was never set.
get_request_id ==
  /\ pc = "idle"
  /\ direct < MaxDirect
  /\ \E g \in GetRequestId :
       /\ next_request_id' = g.next
       /\ free_requests' = g.free
  /\ direct' = direct + 1
  /\ last' = Finished("get_request_id", "ok")
  /\ UNCHANGED <<config, requests_in_flight, heap, pc, locals, most_in_flight>>
  /\ UNCHANGED coll

\* ------------------------------------------------------------- isend, irecv
\* The body shared by isend and irecv: the ASSERTs, get_request_id, malloc,
\* the transport call (nr: whether it left the operation in flight) and insert.
Issue(op, nr) ==
  /\ pc = "idle"
  /\ IF ~P2PReady
       THEN /\ last' = Finished(op, "config")
            /\ UNCHANGED <<registry, heap, most_in_flight>>
       ELSE /\ Len(heap) < MaxOps
            /\ \E g \in GetRequestId, f \in Filled(nr) :
                 /\ next_request_id' = g.next
                 /\ free_requests' = g.free
                 /\ heap' = Append(heap, NewRequest(g.req, nr, f[1], f[2]))
                 /\ requests_in_flight' =
                      Insert(requests_in_flight, g.req, Len(heap) + 1)
                 /\ most_in_flight' =
                      Larger(most_in_flight, Cardinality(DOMAIN requests_in_flight'))
                 /\ last' = Finished(op, "ok")
  /\ UNCHANGED <<config, pc, locals, direct>>
  /\ UNCHANGED coll

isend == \E nr \in BOOLEAN : Issue("isend", nr)

irecv == \E nr \in BOOLEAN : Issue("irecv", nr)

\* ------------------------------------------------------------- waitall
RECURSIVE SeqsUpTo(_, _)
SeqsUpTo(S, n) ==
  IF n = 0 THEN {<<>>}
  ELSE LET shorter == SeqsUpTo(S, n - 1)
       IN shorter \cup {Append(s, x) : s \in {t \in shorter : Len(t) = n - 1}, x \in S}

\* Entry: the ASSERTs, requests.reserve and start = time(NULL).
waitall_enter ==
  /\ pc = "idle"
  /\ \E arr \in SeqsUpTo(0..MaxId, MaxCount) :
       IF ~P2PReady
         THEN /\ last' = Finished("waitall", "config")
              /\ UNCHANGED <<pc, locals>>
         ELSE /\ pc' = "release"
              /\ array_of_requests' = arr
              /\ taken' = {}
              /\ LocalsGone
              /\ UNCHANGED last
  /\ UNCHANGED <<config, registry, heap>>
  /\ UNCHANGED <<coll, history>>

\* One round of for (int i = 0; i < count; ++i).
waitall_release ==
  /\ pc = "release"
  /\ IF i > Len(array_of_requests)
       THEN /\ pc' = "while"
            /\ UNCHANGED <<registry, heap, locals, last>>
       ELSE LET id == array_of_requests[i] IN
            IF id \notin Keys
              THEN /\ pc' = "idle"
                   /\ last' = Finished("waitall", "invalid")
                   /\ heap' = Abandon
                   /\ LocalsGone
                   /\ UNCHANGED <<registry, array_of_requests, taken>>
              ELSE /\ requests' = Append(requests, requests_in_flight[id])
                   /\ free_requests' = FreeInsert(id)
                   /\ requests_in_flight' = TableErase(id)
                   /\ heap' = SetState(requests_in_flight[id], "pending")
                   /\ taken' = taken \cup {requests_in_flight[id]}
                   /\ i' = i + 1
                   /\ UNCHANGED <<pc, next_request_id, array_of_requests, it,
                                  restart, since_start, motion, last>>
  /\ UNCHANGED config
  /\ UNCHANGED <<coll, history>>

\* while (requests.size() > 0) { now = time(NULL); ASSERT(now - start < 10) ...
waitall_while ==
  /\ pc = "while"
  /\ IF Len(requests) = 0
       THEN /\ pc' = "idle"
            /\ last' = Finished("waitall", "ok")
            /\ LocalsGone
            /\ UNCHANGED <<heap, array_of_requests, taken>>
       ELSE IF TimedOut
         THEN /\ pc' = "idle"
              /\ last' = Finished("waitall", "timeout")
              /\ heap' = Abandon
              /\ LocalsGone
              /\ UNCHANGED <<array_of_requests, taken>>
         ELSE /\ pc' = "for"
              /\ it' = 1
              /\ UNCHANGED <<heap, array_of_requests, i, requests, restart,
                             since_start, motion, taken, last>>
  /\ UNCHANGED <<config, registry>>
  /\ UNCHANGED <<coll, history>>

\* for (it = requests.begin(); it != requests.end();) { bool restart = false;
waitall_for ==
  /\ pc = "for"
  /\ IF it > Len(requests)
       THEN pc' = "while" /\ UNCHANGED restart
       ELSE pc' = "progress" /\ restart' = FALSE
  /\ UNCHANGED <<config, registry, heap, array_of_requests, i, requests, it,
                 since_start, motion, taken, last>>
  /\ UNCHANGED <<coll, history>>

\* while (ucp_progress(_ucp_worker) != 0) restart = true;  -- a call that
\* reports motion.
waitall_progress_motion ==
  /\ pc = "progress"
  /\ motion < MaxMotion
  /\ restart' = TRUE
  /\ motion' = motion + 1
  /\ UNCHANGED <<config, registry, heap, pc, array_of_requests, i, requests, it,
                 since_start, taken, last>>
  /\ UNCHANGED <<coll, history>>

\* The call of ucp_progress that returns 0 and ends the drain loop.
waitall_progress_none ==
  /\ pc = "progress"
  /\ pc' = "check"
  /\ UNCHANGED <<config, registry, heap, array_of_requests, i, requests, it,
                 restart, since_start, motion, taken, last>>
  /\ UNCHANGED <<coll, history>>

\* The rest of the for body: the ASSERTs on a request that needs release, the
\* completion test, free_ucp_request and erase, or ++it; then
\* if (restart) start = time(NULL).
waitall_check ==
  /\ pc = "check"
  /\ LET h == requests[it] IN
     IF RequestAssertFails(heap[h])
       THEN /\ pc' = "idle"
            /\ last' = Finished("waitall", "ucx_error")
            /\ heap' = Abandon
            /\ LocalsGone
       ELSE /\ IF IsComplete(heap[h])
                 THEN /\ heap' = free_ucp_request(h)
                      /\ requests' = Erase(requests, it)
                      /\ since_start' = 0
                      /\ motion' = 0
                      /\ UNCHANGED it
                 ELSE /\ it' = it + 1
                      /\ since_start' = IF restart THEN 0 ELSE since_start
                      /\ UNCHANGED <<heap, requests, motion>>
            /\ restart' = FALSE
            /\ pc' = "for"
            /\ UNCHANGED <<i, last>>
  /\ UNCHANGED <<config, registry, array_of_requests, taken>>
  /\ UNCHANGED <<coll, history>>

\* ------------------------------------------------------------- environment
\* The transport's completion callback sets req->req->completed = 1 on an
\* operation that was left in flight.
transport_complete ==
  \E h \in Handles :
    /\ heap[h].needs_release
    /\ heap[h].req = "ptr"
    /\ heap[h].completed = 0
    /\ heap[h].state # "cleaned"
    /\ heap' = [heap EXCEPT ![h].completed = 1]
    /\ UNCHANGED <<config, registry, pc, locals, last>>
    /\ UNCHANGED <<coll, history>>

\* One second passes while waitall runs.  The code reads the clock at the head
\* of the while loop (now) and when it resets start; since_start is the
\* difference of the two, so the seconds that pass anywhere in a round are
\* counted where the next read of now sees them.
tick ==
  /\ pc = "while"
  /\ since_start < Timeout
  /\ since_start' = since_start + 1
  /\ UNCHANGED <<config, registry, heap, pc, array_of_requests, i, requests, it,
                 restart, motion, taken, last>>
  /\ UNCHANGED <<coll, history>>

Next ==
  \/ get_request_id
  \/ isend
  \/ irecv
  \/ waitall_enter
  \/ waitall_release
  \/ waitall_while
  \/ waitall_for
  \/ waitall_progress_motion
  \/ waitall_progress_none
  \/ waitall_check
  \/ transport_complete
  \/ tick

Spec == Init /\ [][Next]_vars

\* The calling thread runs on, and the clock advances: every step of waitall
\* that is enabled is eventually taken, and seconds keep passing between reads
\* of the clock.  A progress call reports motion at most MaxMotion times
\* between two completions, so each drain loop ends.
FairSpec ==
  /\ Spec
  /\ WF_vars(waitall_release)
  /\ WF_vars(waitall_while)
  /\ WF_vars(waitall_for)
  /\ WF_vars(waitall_progress_none)
  /\ WF_vars(waitall_check)
  /\ SF_vars(tick)

\* ------------------------------------------------------------- syncStream
\* What cudaStreamQuery can report to the running syncStream: not ready for
\* the first stream_n queries, then complete or failed.
StreamQuery ==
  IF polls < stream_n
    THEN {"cudaErrorNotReady"}
    ELSE {"cudaSuccess", "cudaErrorLaunchFailure"}

NcclResults == {"ncclSuccess", "ncclSystemError"}

\* Faulty variant: a pending stream is taken for a failed one.
AfterQuery_PendingIsError(err) ==
  IF err = "cudaSuccess" THEN "commStatusSuccess" ELSE "commStatusError"

\* Faulty variant: every status other than pending ends the wait as a success.
AfterQuery_ErrorIsSuccess(err) ==
  IF err # "cudaErrorNotReady" THEN "commStatusSuccess" ELSE "async"

\* if (cudaErr == cudaSuccess) return Success;
\* if (cudaErr != cudaErrorNotReady) return Error;
AfterQuery(err) ==
  IF err = "cudaSuccess" THEN "commStatusSuccess"
  ELSE IF err # "cudaErrorNotReady" THEN "commStatusError"
  ELSE "async"

\* if (ncclErr != ncclSuccess) return Error;
\* if (ncclAsyncErr != ncclSuccess) { ncclCommAbort ... }
AfterAsyncQuery(err, asyncErr) ==
  IF err # "ncclSuccess" THEN "commStatusError"
  ELSE IF asyncErr # "ncclSuccess" THEN "abort"
  ELSE "yield"

\* if (ncclErr != ncclSuccess) return Abort;   -- and nothing else: after an
\* abort that succeeded the function goes on to pthread_yield and loops.
AfterAbort(err) ==
  IF err # "ncclSuccess" THEN "commStatusAbort" ELSE "yield"

\* syncStream's locals at its entry.
SyncEntered(n) ==
  /\ stream_n' = n
  /\ cudaErr' = "unset"
  /\ ncclErr' = "unset"
  /\ ncclAsyncErr' = "unset"
  /\ polls' = 0
  /\ aborts' = 0
  /\ faults' = 0
  /\ status' = "none"

\* The locals and arguments of collective calls that have ended.
SyncGone == SyncEntered(0)

ArgsGone == args' = <<>> /\ root' = 0

\* return st; to barrier's ASSERT or to the caller of syncStream.
SyncReturn(st) ==
  /\ status' = st
  /\ IF caller = "barrier"
       THEN pc' = "barrier_assert" /\ UNCHANGED last
       ELSE pc' = "returned" /\ last' = Finished("syncStream", st)

\* A call of syncStream(stream) on a stream that stays pending for n queries.
syncStream ==
  /\ pc = "idle"
  /\ \E n \in 0..MaxPending : SyncEntered(n)
  /\ caller' = "syncStream"
  /\ pc' = "sync_query"
  /\ UNCHANGED <<p2p, last, size, stream_ops, args, root>>

\* cudaErr = cudaStreamQuery(stream) and the two tests on it.
sync_query ==
  /\ pc = "sync_query"
  /\ \E err \in StreamQuery :
       /\ cudaErr' = err
       /\ polls' = polls + 1
       /\ IF AfterQuery(err) = "async"
            THEN pc' = "sync_async" /\ UNCHANGED <<status, last>>
            ELSE SyncReturn(AfterQuery(err))
  /\ UNCHANGED <<p2p, size, stream_n, stream_ops, ncclErr, ncclAsyncErr,
                 aborts, faults, caller, args, root>>

\* ncclErr = ncclCommGetAsyncError(_nccl_comm, &ncclAsyncErr) and the tests on
\* it; a failed query does not write ncclAsyncErr.
sync_async ==
  /\ pc = "sync_async"
  /\ \E err \in NcclResults :
       \E asyncErr \in (IF err = "ncclSuccess" THEN NcclResults ELSE {ncclAsyncErr}) :
         /\ ncclErr' = err
         /\ ncclAsyncErr' = asyncErr
         /\ faults' = IF err = "ncclSuccess" /\ asyncErr # "ncclSuccess"
                         THEN faults + 1 ELSE faults
         /\ CASE AfterAsyncQuery(err, asyncErr) = "abort" ->
                   pc' = "sync_abort" /\ UNCHANGED <<status, last>>
              [] AfterAsyncQuery(err, asyncErr) = "yield" ->
                   pc' = "sync_query" /\ UNCHANGED <<status, last>>
              [] OTHER -> SyncReturn(AfterAsyncQuery(err, asyncErr))
  /\ UNCHANGED <<p2p, size, stream_n, stream_ops, cudaErr, polls, aborts,
                 caller, args, root>>

\* ncclErr = ncclCommAbort(_nccl_comm) and the test on it.
sync_abort ==
  /\ pc = "sync_abort"
  /\ \E err \in NcclResults :
       /\ ncclErr' = err
       /\ aborts' = aborts + 1
       /\ IF AfterAbort(err) = "yield"
            THEN pc' = "sync_query" /\ UNCHANGED <<status, last>>
            ELSE SyncReturn(AfterAbort(err))
  /\ UNCHANGED <<p2p, size, stream_n, stream_ops, cudaErr, ncclAsyncErr, polls,
                 faults, caller, args, root>>

\* ------------------------------------------------------------- translators
Datatypes == {"CHAR", "UINT8", "INT", "UINT", "INT64", "UINT64", "FLOAT", "DOUBLE"}

\* getDatatypeSize: sizeof of the element type.
getDatatypeSize(datatype) ==
  CASE datatype = "CHAR" -> 1
    [] datatype = "UINT8" -> 1
    [] datatype = "INT" -> 4
    [] datatype = "UINT" -> 4
    [] datatype = "INT64" -> 8
    [] datatype = "UINT64" -> 8
    [] datatype = "FLOAT" -> 4
    [] datatype = "DOUBLE" -> 8

getNCCLDatatype(datatype) ==
  CASE datatype = "CHAR" -> "ncclChar"
    [] datatype = "UINT8" -> "ncclUint8"
    [] datatype = "INT" -> "ncclInt"
    [] datatype = "UINT" -> "ncclUint32"
    [] datatype = "INT64" -> "ncclInt64"
    [] datatype = "UINT64" -> "ncclUint64"
    [] datatype = "FLOAT" -> "ncclFloat"
    [] datatype = "DOUBLE" -> "ncclDouble"

getNCCLOp(op) ==
  CASE op = "SUM" -> "ncclSum"
    [] op = "PROD" -> "ncclProd"
    [] op = "MIN" -> "ncclMin"
    [] op = "MAX" -> "ncclMax"

\* ------------------------------------------------------------- barrier
\* cudaMemsetAsync(buf, 1, sizeof(int), _stream)
Memset(buf) ==
  [call |-> "cudaMemsetAsync", buf |-> buf, value |-> 1,
   bytes |-> getDatatypeSize("INT"), stream |-> "_stream"]

\* allreduce(_sendbuff, _recvbuff, 1, comms::INT, comms::SUM, _stream)
BarrierAllReduce ==
  [call |-> "ncclAllReduce", sendbuff |-> "_sendbuff", recvbuff |-> "_recvbuff",
   count |-> 1, datatype |-> getNCCLDatatype("INT"), op |-> getNCCLOp("SUM"),
   stream |-> "_stream"]

SyncCall == [call |-> "syncStream", stream |-> "_stream"]

\* Faulty variant: the ASSERT lets commStatusAbort through.
BarrierAssert_AbortPasses(st) == st \in {"commStatusSuccess", "commStatusAbort"}

\* ASSERT(syncStream(_stream) == status_t::commStatusSuccess, ...)
BarrierAssert(st) == st = "commStatusSuccess"

\* A collective call ends: normally, or by the exception of a failed check.
CollEnd(op, res) ==
  /\ pc' = "returned"
  /\ last' = Finished(op, res)

\* CUDA_CHECK(cudaMemsetAsync(_sendbuff, ...))
barrier ==
  /\ pc = "idle"
  /\ caller' = "barrier"
  /\ stream_ops' = <<Memset("_sendbuff")>>
  /\ \/ pc' = "barrier_memset_recv" /\ UNCHANGED last
     \/ CollEnd("barrier", "cuda_error")
  /\ UNCHANGED <<p2p, size, stream_n, sync_locals, args, root>>

\* CUDA_CHECK(cudaMemsetAsync(_recvbuff, ...))
barrier_memset_recv ==
  /\ pc = "barrier_memset_recv"
  /\ stream_ops' = Append(stream_ops, Memset("_recvbuff"))
  /\ \/ pc' = "barrier_allreduce" /\ UNCHANGED last
     \/ CollEnd("barrier", "cuda_error")
  /\ UNCHANGED <<p2p, size, stream_n, sync_locals, caller, args, root>>

\* allreduce(...), whose NCCL_CHECK fails on a transport error.
barrier_allreduce ==
  /\ pc = "barrier_allreduce"
  /\ stream_ops' = Append(stream_ops, BarrierAllReduce)
  /\ \/ pc' = "barrier_sync" /\ UNCHANGED last
     \/ CollEnd("barrier", "nccl_error")
  /\ UNCHANGED <<p2p, size, stream_n, sync_locals, caller, args, root>>

\* The call syncStream(_stream) inside the ASSERT.
barrier_sync ==
  /\ pc = "barrier_sync"
  /\ stream_ops' = Append(stream_ops, SyncCall)
  /\ \E n \in 0..MaxPending : SyncEntered(n)
  /\ pc' = "sync_query"
  /\ UNCHANGED <<p2p, last, size, caller, args, root>>

\* The ASSERT on what syncStream returned.
barrier_assert ==
  /\ pc = "barrier_assert"
  /\ IF BarrierAssert(status)
       THEN CollEnd("barrier", "ok")
       ELSE CollEnd("barrier", "sync_failed")
  /\ UNCHANGED <<p2p, coll>>

\* ------------------------------------------------------------- allgatherv
\* Faulty variant: the displacement is used as a byte offset.
BcastOffset_NoScale(displs, r, datatype) == displs[r]

\* displs[root] * getDatatypeSize(datatype)
BcastOffset(displs, r, datatype) == displs[r] * getDatatypeSize(datatype)

\* int root = 0
FirstRoot == 0

\* ncclBroadcast(sendbuf, recvbuf + offset, recvcounts[root], type, root, ...)
Bcast(r) ==
  [call |-> "ncclBroadcast",
   offset |-> BcastOffset(args.displs, r, args.datatype),
   count |-> args.recvcounts[r],
   datatype |-> getNCCLDatatype(args.datatype),
   root |-> r]

\* Entry of allgatherv with its arguments.
allgatherv ==
  /\ pc = "idle"
  /\ \E recvcounts \in [0..(size - 1) -> 0..MaxElems],
        displs \in [0..(size - 1) -> 0..MaxElems],
        datatype \in Datatypes :
       args' = [recvcounts |-> recvcounts, displs |-> displs, datatype |-> datatype]
  /\ caller' = "allgatherv"
  /\ root' = FirstRoot
  /\ pc' = "allgatherv_loop"
  /\ UNCHANGED <<p2p, last, size, stream_n, stream_ops, sync_locals>>

\* One round of for (int root = 0; root < _size; ++root) NCCL_CHECK(...).
allgatherv_loop ==
  /\ pc = "allgatherv_loop"
  /\ IF root < size
       THEN /\ stream_ops' = Append(stream_ops, Bcast(root))
            /\ \/ root' = root + 1 /\ UNCHANGED <<pc, last>>
               \/ CollEnd("allgatherv", "nccl_error") /\ UNCHANGED root
       ELSE /\ CollEnd("allgatherv", "ok")
            /\ UNCHANGED <<stream_ops, root>>
  /\ UNCHANGED <<p2p, size, stream_n, sync_locals, caller, args>>

\* Control is back in the caller of the collective call; the call's arguments
\* and locals are gone.
coll_return ==
  /\ pc = "returned"
  /\ pc' = "idle"
  /\ caller' = "none"
  /\ stream_ops' = <<>>
  /\ SyncGone
  /\ ArgsGone
  /\ last' = Finished("none", "ok")
  /\ UNCHANGED <<p2p, size>>

\* The collective calls of a communicator of either constructor; they read
\* none of the point-to-point members.
CollInit ==
  /\ Constructed
  /\ ucp_worker = p2p_enabled
  /\ next_request_id = 0
  /\ size \in 1..MaxSize

CollNext ==
  \/ syncStream
  \/ sync_query
  \/ sync_async
  \/ sync_abort
  \/ barrier
  \/ barrier_memset_recv
  \/ barrier_allreduce
  \/ barrier_sync
  \/ barrier_assert
  \/ allgatherv
  \/ allgatherv_loop
  \/ coll_return

CollSpec == CollInit /\ [][CollNext]_vars

\* ------------------------------------------------------------- properties
Polling == pc \in {"while", "for", "progress", "check"}

Ended(op, res) == pc = "idle" /\ last = Finished(op, res)

\* The handles whose operation has not been observed complete by a waitall.
Uncleaned == {h \in Handles : heap[h].state # "cleaned"}

\* The operation of handle h is complete at the transport: it needed no release
\* step, or its completion flag is 1.
CompleteAtTransport(h) == (~heap[h].needs_release) \/ heap[h].completed = 1

\* C1: identifier uniqueness in the table.  Every operation that was issued and
\* not yet handed to a waitall is the table's entry under the identifier it was
\* issued with (so no insert found its key present and dropped the handle), and
\* every key of the table names exactly that one operation.
C1_IdentifierUnique ==
  /\ \A h \in Handles :
       heap[h].state = "inflight" =>
         /\ heap[h].id \in Keys
         /\ requests_in_flight[heap[h].id] = h
  /\ \A k \in Keys :
       /\ requests_in_flight[k] \in Handles
       /\ heap[requests_in_flight[k]].id = k
       /\ heap[requests_in_flight[k]].state = "inflight"

\* A recycled identifier has been registered again: an earlier operation held
\* the identifier of one that is now in the table.
C1_Witness ==
  \E h1, h2 \in Handles :
    /\ h1 < h2
    /\ heap[h1].id = heap[h2].id
    /\ heap[h2].state = "inflight"
    /\ heap[h2].id \in Keys

\* C2: the free set and the keys of the in-flight table are disjoint in every
\* state, also after a call that failed.
C2_FreeDisjointInFlight == free_requests \cap Keys = {}

\* A waitall failed with an invalid request after releasing one identifier,
\* with another operation still in the table.
C2_Witness ==
  /\ Ended("waitall", "invalid")
  /\ free_requests # {}
  /\ Keys # {}

\* C3: no identifier is in the free set while the operation issued under it has
\* not been observed complete and cleaned up.  Stated for the states between
\* calls, which a caller can observe.
C3_FreedOnlyWhenComplete ==
  pc = "idle" => \A h \in Uncleaned : heap[h].id \notin free_requests

\* C4: isend/irecv never return an identifier while the operation that held it
\* before was handed to a waitall and is still incomplete, also after a
\* waitall that timed out or failed on an invalid request.
C4_NoReuseWhilePending ==
  \A h1, h2 \in Handles :
    (h1 < h2 /\ heap[h1].id = heap[h2].id) =>
      ~(heap[h1].state \in {"pending", "abandoned"} /\ ~CompleteAtTransport(h1))

\* C5: waitall returns successfully only when every request it named has been
\* observed complete (no release step needed, or completion flag 1) and
\* cleaned up.
C5_SuccessMeansAllComplete ==
  Ended("waitall", "ok") =>
    /\ Cardinality(taken) = Len(array_of_requests)
    /\ \A h \in taken : heap[h].state = "cleaned" /\ CompleteAtTransport(h)

\* A waitall on both issued requests succeeded, one of them completed by the
\* transport after it was issued.
C5_Witness ==
  /\ Ended("waitall", "ok")
  /\ Len(array_of_requests) = 2
  /\ \E h \in taken : heap[h].needs_release

\* C6: after a waitall that failed with a timeout, the identifiers of the
\* requests that were still pending are not in the free set.
C6_TimeoutKeepsIdsOut ==
  Ended("waitall", "timeout") =>
    \A h \in taken : heap[h].state = "abandoned" => heap[h].id \notin free_requests

\* A step with which a waitall call ends: out of one of its loops, or at once
\* on one of the ASSERTs that open it.
WaitallEnding ==
  /\ pc' = "idle"
  /\ last'.op = "waitall"
  /\ pc # "idle" \/ last' # last

\* A waitall call that has started eventually ends.
WaitallTerminates == (pc # "idle") ~> (pc = "idle")

\* C7 as stated: every waitall call eventually ends, successfully with all
\* named requests complete or with a timeout.
C7_WaitallEnds_AsStated ==
  /\ WaitallTerminates
  /\ [][WaitallEnding =>
          /\ last'.res \in {"ok", "timeout"}
          /\ last'.res = "ok" => \A h \in taken : CompleteAtTransport(h)]_vars

\* C7, corrected: every waitall call eventually ends: with a configuration
\* error, with an invalid-request error, successfully with all named requests
\* complete, with a timeout, or with a failed ASSERT on a native request that
\* needs release.
C7_WaitallEnds ==
  /\ WaitallTerminates
  /\ [][WaitallEnding =>
          /\ last'.res \in {"config", "invalid", "ok", "timeout", "ucx_error"}
          /\ last'.res = "ok" => \A h \in taken : CompleteAtTransport(h)]_vars

\* A waitall ended with a timeout after one of its requests had completed and
\* reset the stall timer.
C7_Witness ==
  /\ Ended("waitall", "timeout")
  /\ \E h \in taken : heap[h].state = "cleaned"
  /\ \E h \in taken : heap[h].state = "abandoned"

\* C8: the step that issues an operation takes its identifier from the free
\* set when that is non-empty (removing it, counter unchanged), and otherwise
\* takes the counter and increments it (free set still empty); a call of
\* get_request_id on its own changes counter and free set in the same way; the
\* counter never decreases.
C8_AllocateContract ==
  [][/\ next_request_id' >= next_request_id
     /\ Len(heap') > Len(heap) =>
          LET req == heap'[Len(heap')].id IN
          IF free_requests = {}
            THEN /\ req = next_request_id
                 /\ next_request_id' = next_request_id + 1
                 /\ free_requests' = {}
            ELSE /\ req \in free_requests
                 /\ free_requests' = free_requests \ {req}
                 /\ next_request_id' = next_request_id
     /\ direct' # direct =>
          IF free_requests = {}
            THEN /\ next_request_id' = next_request_id + 1
                 /\ free_requests' = {}
            ELSE /\ \E req \in free_requests :
                      free_requests' = free_requests \ {req}
                 /\ next_request_id' = next_request_id]_vars

\* An irecv was given an identifier from the free set.
C8_Witness ==
  /\ Ended("irecv", "ok")
  /\ heap[Len(heap)].id < next_request_id
  /\ \E h \in Handles : h < Len(heap) /\ heap[h].id = heap[Len(heap)].id
  /\ free_requests = {}

\* C9: waitall fails with an invalid-request error when the identifier it
\* processes is not a key of the table: a waitall that got past its first loop
\* named pairwise different identifiers, each of them in flight when it was
\* processed.
C9_InvalidRequestFails ==
  /\ [](Polling \/ Ended("waitall", "ok") \/ Ended("waitall", "timeout") =>
          /\ Cardinality(taken) = Len(array_of_requests)
          /\ \A k \in 1..Len(array_of_requests) :
               \E h \in taken : heap[h].id = array_of_requests[k])
  /\ [][(/\ pc = "release"
         /\ i <= Len(array_of_requests)
         /\ array_of_requests[i] \notin Keys
         /\ <<pc, i>>' # <<pc, i>>) =>
          (pc' = "idle" /\ last' = Finished("waitall", "invalid"))]_vars

\* A waitall failed on an identifier listed a second time in the same call.
C9_Witness ==
  /\ Ended("waitall", "invalid")
  /\ Len(array_of_requests) = 2
  /\ array_of_requests[1] = array_of_requests[2]
  /\ taken # {}

\* C10: on a communicator without the message transport or without a worker,
\* every isend, irecv and waitall ends with a configuration error, no
\* transport operation is issued and counter, table and free set stay as
\* constructed.
C10_ConfigError ==
  /\ []((~(p2p_enabled /\ ucp_worker)) =>
          /\ pc = "idle"
          /\ last.op \in {"isend", "irecv", "waitall"} => last.res = "config"
          /\ heap = <<>>
          /\ Keys = {}
          /\ free_requests = {})
  /\ [][(~(p2p_enabled /\ ucp_worker) /\ direct' = direct) =>
          next_request_id' = next_request_id]_vars

\* A waitall failed on a point-to-point communicator whose worker is absent.
C10_Witness ==
  /\ p2p_enabled
  /\ ~ucp_worker
  /\ Ended("waitall", "config")

\* A collective call has ended and control is not yet back in its caller.
Returned(op, res) == pc = "returned" /\ last = Finished(op, res)

\* C11: when the stream query reports pending stream_n times and then
\* success, the asynchronous-error query works and reports no fault, syncStream
\* has queried the stream exactly stream_n + 1 times when it returns, and it
\* returns Success.
C11_PollsExactlyNPlusOne ==
  (status # "none" /\ faults = 0 /\ ncclErr # "ncclSystemError") =>
    /\ polls = stream_n + 1
    /\ cudaErr = "cudaSuccess" => status = "commStatusSuccess"

\* syncStream returned Success after two pending reports and three queries.
C11_Witness ==
  /\ Returned("syncStream", "commStatusSuccess")
  /\ stream_n = 2
  /\ polls = 3
  /\ faults = 0

\* C12: syncStream returns Success exactly when a stream query reported
\* completion; it returns Error whenever a stream query reported a status
\* other than complete or pending, and otherwise only when the
\* asynchronous-error query failed while the stream was pending; it returns
\* Abort only when a fault was reported while the stream was pending and the
\* abort failed.  The asynchronous-error query is reached only while the
\* stream is pending, and the abort only after that query worked and reported
\* a fault.
C12_Codes ==
  /\ status = "commStatusSuccess" <=> cudaErr = "cudaSuccess"
  /\ cudaErr = "cudaErrorLaunchFailure" => status = "commStatusError"
  /\ status = "commStatusError" =>
       \/ cudaErr = "cudaErrorLaunchFailure"
       \/ cudaErr = "cudaErrorNotReady" /\ ncclErr # "ncclSuccess"
  /\ status = "commStatusAbort" =>
       /\ cudaErr = "cudaErrorNotReady"
       /\ faults >= 1
       /\ ncclAsyncErr # "ncclSuccess"
       /\ aborts >= 1
       /\ ncclErr # "ncclSuccess"
  /\ pc = "sync_async" => cudaErr = "cudaErrorNotReady" /\ status = "none"
  /\ pc = "sync_abort" =>
       /\ cudaErr = "cudaErrorNotReady"
       /\ ncclErr = "ncclSuccess"
       /\ ncclAsyncErr # "ncclSuccess"
       /\ status = "none"

\* A failed asynchronous-error query ends the call with Error (C12).
C12_AsyncQueryFails ==
  (pc = "sync_async" /\ ncclErr' # "ncclSuccess") =>
    status' = "commStatusError" /\ pc' \notin {"sync_query", "sync_async", "sync_abort"}

\* C12: the result codes of syncStream: the state part C12_Codes in every
\* state, and Error at every step in which the asynchronous-error query fails.
C12_ResultCodes == [](C12_Codes) /\ [][C12_AsyncQueryFails]_vars

\* syncStream returned Abort after a fault was reported and the abort failed.
C12_Witness ==
  /\ Returned("syncStream", "commStatusAbort")
  /\ aborts = 1
  /\ polls = 1

\* C13: within one syncStream call the abort of the communicator is invoked
\* at most once, and after it the call polls no further.
C13_OneAbortThenReport ==
  /\ aborts <= 1
  /\ aborts >= 1 => pc \notin {"sync_query", "sync_async", "sync_abort"}

\* What barrier issues, in order.
BarrierSequence ==
  << [call |-> "cudaMemsetAsync", buf |-> "_sendbuff", value |-> 1, bytes |-> 4,
      stream |-> "_stream"],
     [call |-> "cudaMemsetAsync", buf |-> "_recvbuff", value |-> 1, bytes |-> 4,
      stream |-> "_stream"],
     [call |-> "ncclAllReduce", sendbuff |-> "_sendbuff", recvbuff |-> "_recvbuff",
      count |-> 1, datatype |-> "ncclInt", op |-> "ncclSum", stream |-> "_stream"],
     [call |-> "syncStream", stream |-> "_stream"] >>

\* C14: barrier issues, on the communicator's stream and in this order, the
\* memset of the send and of the receive buffer to a nonzero value, one sum
\* all-reduce of 1 element over them and syncStream; it returns normally only
\* after all four with syncStream returning Success, and fails when syncStream
\* returns Error or Abort.
C14_BarrierSequence ==
  caller = "barrier" =>
    /\ Len(stream_ops) <= Len(BarrierSequence)
    /\ \A k \in 1..Len(stream_ops) : stream_ops[k] = BarrierSequence[k]
    /\ stream_ops[1].value # 0
    /\ Returned("barrier", "ok") =>
         stream_ops = BarrierSequence /\ status = "commStatusSuccess"
    /\ (pc = "returned" /\ status \in {"commStatusError", "commStatusAbort"}) =>
         last = Finished("barrier", "sync_failed")

\* barrier returned normally after its stream had been pending.
C14_Witness ==
  /\ Returned("barrier", "ok")
  /\ Len(stream_ops) = 4
  /\ polls = 2

\* C15: allgatherv issues its broadcasts in the order root = 0, 1, ..., the one
\* for root r with recvcounts[r] elements at byte offset displs[r] times the
\* element size; it issues _size of them when it returns normally, and none
\* after the first one that fails.
C15_AllgathervBroadcasts ==
  caller = "allgatherv" =>
    /\ Len(stream_ops) <= size
    /\ \A k \in 1..Len(stream_ops) :
         /\ stream_ops[k].call = "ncclBroadcast"
         /\ stream_ops[k].root = k - 1
         /\ stream_ops[k].count = args.recvcounts[k - 1]
         /\ stream_ops[k].offset = args.displs[k - 1] * getDatatypeSize(args.datatype)
         /\ stream_ops[k].datatype = getNCCLDatatype(args.datatype)
    /\ Returned("allgatherv", "ok") => Len(stream_ops) = size
    /\ Returned("allgatherv", "nccl_error") => Len(stream_ops) = root + 1
    /\ pc = "allgatherv_loop" => Len(stream_ops) = root

\* allgatherv returned normally on two ranks with recvcounts = [2, 3] and
\* displs = [0, 2] of 4-byte elements.
C15_Witness ==
  /\ Returned("allgatherv", "ok")
  /\ size = 2
  /\ args.recvcounts = [r \in 0..1 |-> IF r = 0 THEN 2 ELSE 3]
  /\ args.displs = [r \in 0..1 |-> IF r = 0 THEN 0 ELSE 2]
  /\ args.datatype = "INT"
  /\ stream_ops[2].offset = 8

\* C16: a step of waitall fails with the timeout only when the clock reads at
\* least Timeout seconds past the stall timer, which is set to the current time
\* when the call starts and at the end of every round of the polling loop in
\* which a progress call reported motion or the request looked at was
\* complete, and which otherwise advances only with the clock.
C16_Step ==
  /\ (pc # "idle" /\ pc' = "idle" /\ last' = Finished("waitall", "timeout")) =>
       since_start >= Timeout
  /\ (pc = "idle" /\ pc' = "release") => since_start' = 0
  /\ (pc = "check" /\ pc' = "for"
        /\ (restart \/ CompleteAtTransport(requests[it]))) =>
       since_start' = 0
  /\ since_start' <= since_start + 1

C16_NoFalseTimeout == [][C16_Step]_vars

\* One of two named requests completed, which reset the timer, and the clock
\* has since advanced Timeout seconds with the other still pending.
C16_Witness ==
  /\ pc = "while"
  /\ Cardinality(taken) = 2
  /\ Len(requests) = 1
  /\ since_start = Timeout

\* C17: free_ucp_request is invoked at most once on each native handle, only
\* on a handle whose operation is complete at the transport, and when a waitall
\* has ended successfully it has been invoked exactly once on every handle the
\* call took from the table.
C17_ExactlyOnceCleanup ==
  /\ \A h \in Handles :
       /\ heap[h].freed <= 1
       /\ heap[h].freed >= 1 => CompleteAtTransport(h)
  /\ Ended("waitall", "ok") => \A h \in taken : heap[h].freed = 1

\* A waitall on two requests, one of them completed by the transport during
\* the call, has ended successfully.
C17_Witness ==
  /\ Ended("waitall", "ok")
  /\ Cardinality(taken) = 2
  /\ \E h \in taken : heap[h].needs_release /\ heap[h].freed = 1

\* The statement of C18 between calls.
NoIdentifierLost ==
  /\ \A id \in 0..(next_request_id - 1) : id \in Keys \cup free_requests
  /\ \A id \in Keys \cup free_requests : id < next_request_id

\* C18 as stated: after every completed isend, irecv or waitall call, every
\* identifier below the counter is a key of the table or in the free set, and
\* neither holds an identifier at or above the counter.
C18_NoIdentifierLost_AsStated ==
  (pc = "idle" /\ last.op \in {"isend", "irecv", "waitall"}) => NoIdentifierLost

\* C18, corrected: the same on a communicator built by the point-to-point
\* constructor, which is the one that sets the counter, as long as
\* get_request_id has been called by isend and irecv only.
C18_NoIdentifierLost ==
  (/\ pc = "idle"
   /\ p2p_enabled
   /\ direct = 0
   /\ last.op \in {"isend", "irecv", "waitall"}) =>
    NoIdentifierLost

\* After a waitall, two identifiers have been handed out, one back in the free
\* set and one a key of the table.
C18_Witness ==
  /\ pc = "idle"
  /\ p2p_enabled
  /\ last.op = "waitall"
  /\ direct = 0
  /\ next_request_id = 2
  /\ Keys # {}
  /\ free_requests # {}

\* C19: when a waitall has failed with the invalid-request error, the requests
\* it had taken before it met the invalid identifier are still in the table
\* under their identifiers and these are not in the free set.
C19_InvalidLeavesRegistry ==
  Ended("waitall", "invalid") =>
    \A h \in taken :
      /\ heap[h].id \in Keys
      /\ requests_in_flight[heap[h].id] = h
      /\ heap[h].id \notin free_requests

\* The identifiers named in the running call.
Named == {array_of_requests[k] : k \in 1..Len(array_of_requests)}

\* C20: no step taken while a waitall runs touches a table entry whose
\* identifier the call does not name: the entry stays, under the same
\* identifier and with the same handle, the handle is neither taken nor
\* cleaned up, and the identifier does not enter the free set.
C20_Step ==
  pc # "idle" =>
    \A id \in Keys \ Named :
      /\ id \in DOMAIN requests_in_flight'
      /\ requests_in_flight'[id] = requests_in_flight[id]
      /\ heap[requests_in_flight[id]].state = "inflight"
      /\ heap'[requests_in_flight[id]].state = "inflight"
      /\ heap'[requests_in_flight[id]].freed = 0
      /\ requests_in_flight[id] \notin taken'
      /\ id \notin free_requests => id \notin free_requests'

C20_OnlyNamedRequests == [][C20_Step]_vars

\* A waitall on one request has ended successfully while another request,
\* complete at the transport, is still in the table.
C20_Witness ==
  /\ Ended("waitall", "ok")
  /\ taken # {}
  /\ \E id \in Keys \ Named :
       /\ heap[requests_in_flight[id]].completed = 1
       /\ heap[requests_in_flight[id]].state = "inflight"

\* The counter advances, by one, only when the free set is empty and every
\* identifier handed out so far is a key of the table.
C21_FreshOnlyWhenAllInFlight ==
  (next_request_id' # next_request_id /\ direct' = 0) =>
    /\ free_requests = {}
    /\ Keys = 0..(next_request_id - 1)
    /\ next_request_id' = next_request_id + 1

\* After a successful isend, irecv or waitall the counter is the largest
\* number of entries the table has held so far.
C21_CounterIsPeak ==
  (/\ pc = "idle"
   /\ direct = 0
   /\ last.op \in {"isend", "irecv", "waitall"}
   /\ last.res = "ok") =>
    next_request_id = most_in_flight

\* C21: bounded identifier space.  In a sequence of isend, irecv and waitall
\* calls (get_request_id not called on its own) a fresh identifier is taken
\* from the counter only when every identifier issued before is in the table,
\* and after successful calls the counter equals the largest number of
\* requests that were in the table at once.
C21_BoundedIdentifierSpace ==
  [](C21_CounterIsPeak) /\ [][C21_FreshOnlyWhenAllInFlight]_vars

\* Two operations were issued one after the other's waitall: the second reused
\* identifier 0, and the counter is 1 like the table's largest size.
C21_Witness ==
  /\ pc = "idle"
  /\ last = Finished("isend", "ok")
  /\ Len(heap) = 2
  /\ heap[1].state = "cleaned"
  /\ Keys = {0}
  /\ next_request_id = 1
  /\ most_in_flight = 1
  /\ direct = 0

====
